---- MODULE Spec2Model ----
(***************************************************************************)
(* Authentication and session lifecycle of genflow-ai:                     *)
(* AuthService (register, login, logout, validateToken, refreshToken,      *)
(* generatePasswordResetToken, resetPassword), AuthController              *)
(* .forgotPassword, UserController.changePassword and                      *)
(* WorkspaceController.inviteUser, over the Prisma tables users,           *)
(* workspace_users, sessions and the Redis keys blacklist:* and            *)
(* password_reset:*.                                                       *)
(*                                                                         *)
(* Every handler is an async function; each await on the database or on    *)
(* Redis is one atomic step of the request, and requests of different      *)
(* clients interleave between steps.  Synchronous code (jwt.sign,          *)
(* jwt.verify, jwt.decode, comparisons) runs inside the step that follows  *)
(* the await it comes after.  bcrypt.hash / bcrypt.compare touch no shared *)
(* state and are folded into the neighbouring step.                        *)
(*                                                                         *)
(* Time is one integer clock used for Date.now(), JWT iat/exp and Redis    *)
(* TTLs alike.  Math.random() in generateToken is a fresh nonce.           *)
(***************************************************************************)
EXTENDS Integers, FiniteSets, Sequences, TLC

\* ---------------------------------------------------------------- bounds
NumClients == 2
MaxUsers == 2
MaxTokens == 3
MaxTimedTokens == 2
MaxTime == 2

\* ------------------------------------------------------- program constants
\* 7 * 24 * 60 * 60 * 1000 ms, the lifetime of a Session row: one clock unit
SessionTTL == 1
\* expiresIn: '1h' / setex(..., 3600, ...) of the password reset ticket: two
\* units of the clock where reset tokens are issued, so that a second token
\* can be signed at a later iat while the first has not run out
ResetTTL == 2

\* absent values: a missing string, number, hash or sessionId
Null == "null"
NoId == 0
Never == 0 - 1
NoHash == <<>>
NoSessionId == <<0, 0>>

\* a bearer string that is not a JWT at all
Garbage ==
    [typ |-> "garbage", userId |-> NoId, workspaceId |-> NoId,
     role |-> Null, sessionId |-> NoSessionId, iat |-> 0, exp |-> 0,
     sig |-> "malformed"]

Passwords == {"pw1", "pw2"}
\* the password every account is registered with
SignupPasswords == {"pw1"}
RawEmails == {"a@x", "A@x", "b@x"}
\* two spellings of the e-mail of one account
SameEmails == {"a@x", "A@x"}
InviteEmails == {"a@x", "b@x"}

\* JWT_EXPIRES_IN is read from the environment (default '7d'); the two
\* deployments distinguished are the default, where the JWT runs out no
\* later than its Session row, and a JWT that outlives the row.
JwtExpiryChoices == {SessionTTL, SessionTTL + 2}

VARIABLES
    now,          \* Date.now()
    jwtExpiresIn, \* env.JWT_EXPIRES_IN
    users,        \* table users: id -> [email, passwordHash, lastLoginAt]
    memberships,  \* table workspace_users: set of [workspaceId, userId, role]
    sessions,     \* table sessions: set of [token, userId, expiresAt]
    blacklist,    \* redis blacklist:<token>: set of [token, until]
    tickets,      \* redis password_reset:<userId>: set of [userId, token, until]
    nonce,        \* number of session tokens generated so far
    issued,       \* history: tokens returned to callers, in order of issue
    resetIssued,  \* history: reset tokens handed out by forgot-password
    loggedOut,    \* history: [token, wasValid] for every token whose logout
                  \* has returned normally; wasValid tells whether the token
                  \* passed validateToken when its row was deleted
    procs,        \* per client: the request in flight, with its locals
    resp,         \* the response sent by the step just taken, if any
    cacheUp,      \* the Redis server answers
    storeUp,      \* the database answers
    rate,         \* redis auth_rate_limit:<ip> of the one client address:
                  \* [count, until], count 0 when the key is absent
    passed        \* history: per route, the attempts the limiter counted
                  \* and let through within the window that ends now

vars == <<now, jwtExpiresIn, users, memberships, sessions, blacklist,
          tickets, nonce, issued, resetIssued, loggedOut, procs,
          resp, cacheUp, storeUp, rate, passed>>

\* the health of the two backends and the rate limiter's key
envVars == <<cacheUp, storeUp, rate, passed>>

\* ---------------------------------------------------------- pure helpers

\* String.prototype.toLowerCase on the e-mail addresses of the model
toLowerCase(e) == IF e = "A@x" THEN "a@x" ELSE e

\* bcrypt.hash(password, rounds); the salt is not modelled
bcryptHash(pw) == <<"bcrypt", pw>>

\* bcrypt.compare(password, hash)
bcryptCompare(pw, h) == h = bcryptHash(pw)

\* jwt.sign(payload, JWT_SECRET, {expiresIn}) for a session token
SignSession(uid, ws, role, sid, t, ttl) ==
    [typ |-> Null, userId |-> uid, workspaceId |-> ws, role |-> role,
     sessionId |-> sid, iat |-> t, exp |-> t + ttl, sig |-> "ok"]

\* mutant: the token is signed without the sessionId
generateTokenNoSessionId(uid, ws, role) ==
    SignSession(uid, ws, role, NoSessionId, now, jwtExpiresIn)

\* AuthService.generateToken
generateToken(uid, ws, role) ==
    SignSession(uid, ws, role, <<now, nonce + 1>>, now, jwtExpiresIn)

\* jwt.sign({userId, type: 'password_reset'}, JWT_SECRET, {expiresIn: '1h'})
SignReset(uid, t) ==
    [typ |-> "password_reset", userId |-> uid, workspaceId |-> NoId,
     role |-> Null, sessionId |-> NoSessionId, iat |-> t, exp |-> t + ResetTTL,
     sig |-> "ok"]

\* a token whose signature does not verify under JWT_SECRET
Forge(t) == [t EXCEPT !.sig = "bad"]

\* jwt.verify(token, JWT_SECRET): malformed, bad signature, expired, or ok
jwtVerify(t) ==
    IF t = Garbage THEN "InvalidToken"
    ELSE IF t.sig # "ok" THEN "InvalidToken"
    ELSE IF now >= t.exp THEN "Expired"
    ELSE "ok"

\* jwt.decode(token)?.exp : no signature check
jwtDecodeExp(t) == IF t = Garbage THEN NoId ELSE t.exp

\* redis.get(`blacklist:${token}`) is truthy
IsBlacklisted(t) == \E e \in blacklist : e.token = t /\ e.until > now

\* prisma.session.findUnique({where: {token}})
SessionOf(t) == {s \in sessions : s.token = t}

UserIds == DOMAIN users

\* prisma.user.findUnique({where: {email}})
UsersByEmail(e) == {u \in UserIds : users[u].email = e}

\* the tokens a client can present: what was handed out, forgeries of it,
\* reset tokens taken as bearer tokens, and a malformed string
IssuedTokens == {issued[i].token : i \in 1..Len(issued)}
TokenUniverse ==
    IssuedTokens \cup {Forge(t) : t \in IssuedTokens} \cup resetIssued
        \cup {Garbage}

\* the clients that send requests
Clients == DOMAIN procs

Idle == [pc |-> "idle", op |-> "none"]
Free(p) == procs[p].pc = "idle"
NoResp == [op |-> "none"]
\* redis.get(key) is null: no attempt counted
NoRate == [count |-> 0, until |-> 0]
NoPassed == [o \in {"register", "login"} |-> 0]

\* requests in flight that will still create a user / generate a token
PendingUsers ==
    Cardinality({p \in Clients :
        procs[p].pc \in {"rl_get", "rl_incr", "reg_find", "reg_tx",
                         "val_redis", "val_session",
                         "inv_role", "inv_find", "inv_create"}
        /\ procs[p].op \in {"register", "invite"}})
PendingTokens ==
    Cardinality({p \in Clients :
        procs[p].pc \in {"rl_get", "rl_incr", "reg_find", "reg_tx",
                         "reg_session", "login_find",
                         "login_session", "val_redis", "val_session",
                         "rf_user", "rf_session"}
        /\ procs[p].op \in {"register", "login", "refresh"}})
CanCreateUser == Cardinality(UserIds) + PendingUsers < MaxUsers
CanIssueToken(cap) == nonce + PendingTokens < cap

\* ------------------------------------------------------------------ Init
InitData ==
    /\ now = 0
    /\ jwtExpiresIn \in JwtExpiryChoices
    /\ users = <<>>
    /\ memberships = {}
    /\ sessions = {}
    /\ blacklist = {}
    /\ tickets = {}
    /\ nonce = 0
    /\ issued = <<>>
    /\ resetIssued = {}
    /\ loggedOut = {}
    /\ resp = NoResp
    /\ cacheUp = TRUE
    /\ storeUp = TRUE
    /\ rate = NoRate
    /\ passed = NoPassed

\* one client, requests one after the other
Init ==
    /\ InitData
    /\ procs = [p \in {1} |-> Idle]

\* NumClients clients with requests in flight at the same time
InitConc ==
    /\ InitData
    /\ procs = [p \in 1..NumClients |-> Idle]

\* a request ends: the client is answered and is free again
Return(p, r) ==
    /\ procs' = [procs EXCEPT ![p] = Idle]
    /\ resp' = r
    /\ UNCHANGED envVars

\* a request moves on to its next await
Goto(p, r) ==
    /\ procs' = [procs EXCEPT ![p] = r]
    /\ resp' = NoResp
    /\ UNCHANGED envVars

\* ------------------------------------------------------------------ clock
\* Time passes; Redis drops the keys whose TTL has run out.
Tick ==
    /\ now < MaxTime
    /\ now' = now + 1
    /\ blacklist' = {e \in blacklist : e.until > now + 1}
    /\ tickets' = {k \in tickets : k.until > now + 1}
    /\ rate' = IF rate.until > now + 1 THEN rate ELSE NoRate
    /\ passed' = NoPassed
    /\ resp' = NoResp
    /\ UNCHANGED <<cacheUp, storeUp>>
    /\ UNCHANGED <<jwtExpiresIn, users, memberships, sessions, nonce,
                   issued, resetIssued, loggedOut, procs>>

\* prisma.session.create({data: {token, userId, expiresAt}}); sessions.token
\* is @unique, so the create throws when a row with the token exists
SessionCreateFails(tok) == SessionOf(tok) # {}

\* mutant: the row is stored under the user, without the token
SessionCreateNoToken(tok, uid) ==
    sessions \cup
        {[token |-> Garbage, userId |-> uid, expiresAt |-> now + SessionTTL]}

\* the table after the create
SessionCreate(tok, uid) ==
    sessions \cup
        {[token |-> tok, userId |-> uid, expiresAt |-> now + SessionTTL]}

\* --------------------------------------------------------------- register
StartRegister(p, email, pw) ==
    /\ Free(p)
    /\ Goto(p, [pc |-> "reg_find", op |-> "register", email |-> email,
                pw |-> pw])
    /\ UNCHANGED <<now, jwtExpiresIn, users, memberships, sessions,
                   blacklist, tickets, nonce, issued, resetIssued, loggedOut>>

\* mutant: the lookup uses the e-mail as typed
RegisterLookupRaw(email) == UsersByEmail(email)

\* prisma.user.findUnique({where: {email: data.email.toLowerCase()}})
RegisterLookup(email) == UsersByEmail(toLowerCase(email))

\* what register throws when a prisma call is rejected
StoreUnavailable(op) ==
    [op |-> op, ok |-> FALSE, error |-> "StoreUnavailable"]

RegisterFind(p) ==
    LET r == procs[p] IN
    /\ r.pc = "reg_find"
    /\ IF ~storeUp THEN Return(p, StoreUnavailable("register"))
       ELSE IF RegisterLookup(r.email) # {}
       THEN Return(p, [op |-> "register", ok |-> FALSE,
                       error |-> "Conflict"])
       ELSE Goto(p, [r EXCEPT !.pc = "reg_tx"])
    /\ UNCHANGED <<now, jwtExpiresIn, users, memberships, sessions,
                   blacklist, tickets, nonce, issued, resetIssued, loggedOut>>

\* prisma.$transaction: user.create + workspace.create with the OWNER
\* membership; users.email is @unique, a duplicate rolls the whole back
RegisterTx(p) ==
    LET r == procs[p]
        uid == Cardinality(UserIds) + 1
        ws == uid
    IN
    /\ r.pc = "reg_tx"
    /\ IF ~storeUp
       THEN /\ Return(p, StoreUnavailable("register"))
            /\ UNCHANGED <<users, memberships>>
       ELSE IF UsersByEmail(toLowerCase(r.email)) # {}
       THEN /\ Return(p, [op |-> "register", ok |-> FALSE,
                          error |-> "UniqueConstraint"])
            /\ UNCHANGED <<users, memberships>>
       ELSE /\ users' = users @@ (uid :> [email |-> toLowerCase(r.email),
                                          passwordHash |-> bcryptHash(r.pw),
                                          lastLoginAt |-> Never])
            /\ memberships' = memberships \cup
                 {[workspaceId |-> ws, userId |-> uid, role |-> "OWNER"]}
            /\ Goto(p, [pc |-> "reg_session", op |-> "register",
                        userId |-> uid, workspaceId |-> ws])
    /\ UNCHANGED <<now, jwtExpiresIn, sessions, blacklist, tickets, nonce,
                   issued, resetIssued, loggedOut>>

\* generateToken + prisma.session.create + return
RegisterSession(p) ==
    LET r == procs[p]
        tok == generateToken(r.userId, r.workspaceId, "OWNER")
    IN
    /\ r.pc = "reg_session"
    /\ nonce' = nonce + 1
    /\ IF ~storeUp
       THEN /\ Return(p, StoreUnavailable("register"))
            /\ UNCHANGED <<sessions, issued>>
       ELSE IF SessionCreateFails(tok)
       THEN /\ Return(p, [op |-> "register", ok |-> FALSE,
                          error |-> "UniqueConstraint"])
            /\ UNCHANGED <<sessions, issued>>
       ELSE /\ sessions' = SessionCreate(tok, r.userId)
            /\ issued' = Append(issued,
                 [op |-> "register", token |-> tok, userId |-> r.userId,
                  workspaceId |-> r.workspaceId])
            /\ Return(p, [op |-> "register", ok |-> TRUE, token |-> tok,
                          userId |-> r.userId,
                          workspaceId |-> r.workspaceId])
    /\ UNCHANGED <<now, jwtExpiresIn, users, memberships, blacklist,
                   tickets, resetIssued, loggedOut>>

\* ------------------------------------------------------------------ login
StartLogin(p, email, pw) ==
    /\ Free(p)
    /\ Goto(p, [pc |-> "login_find", op |-> "login", email |-> email,
                pw |-> pw])
    /\ UNCHANGED <<now, jwtExpiresIn, users, memberships, sessions,
                   blacklist, tickets, nonce, issued, resetIssued, loggedOut>>

\* include: {workspaces: {where: {role: {in: ['OWNER','ADMIN']}}, take: 1}}
\* has no orderBy: any one of the qualifying memberships may come back
PrimaryMemberships(uid) ==
    {m \in memberships : m.userId = uid /\ m.role \in {"OWNER", "ADMIN"}}

\* mutant: an unknown e-mail is told apart from a wrong password
LoginCheckTelling(found, pw) ==
    IF found = {} THEN "UserNotFound"
    ELSE LET uid == CHOOSE u \in found : TRUE IN
         IF users[uid].passwordHash = NoHash THEN "InvalidCredentials"
         ELSE IF ~bcryptCompare(pw, users[uid].passwordHash)
         THEN "InvalidCredentials"
         ELSE IF PrimaryMemberships(uid) = {} THEN "NoWorkspace"
         ELSE "ok"

\* the checks of login on the row it found: "ok" or the error thrown
LoginCheck(found, pw) ==
    IF found = {} THEN "InvalidCredentials"
    ELSE LET uid == CHOOSE u \in found : TRUE IN
         IF users[uid].passwordHash = NoHash THEN "InvalidCredentials"
         ELSE IF ~bcryptCompare(pw, users[uid].passwordHash)
         THEN "InvalidCredentials"
         ELSE IF PrimaryMemberships(uid) = {} THEN "NoWorkspace"
         ELSE "ok"

\* prisma.user.findUnique with the memberships, the two credential checks
\* and the workspace check
LoginFind(p) ==
    LET r == procs[p]
        found == UsersByEmail(toLowerCase(r.email))
        check == LoginCheck(found, r.pw)
    IN
    /\ r.pc = "login_find"
    /\ IF check # "ok"
       THEN Return(p, [op |-> "login", ok |-> FALSE, error |-> check,
                       email |-> r.email])
       ELSE \E uid \in found : \E m \in PrimaryMemberships(uid) :
              Goto(p, [pc |-> "login_session", op |-> "login",
                       userId |-> uid, workspaceId |-> m.workspaceId,
                       role |-> m.role,
                       checked |-> users[uid].passwordHash])
    /\ UNCHANGED <<now, jwtExpiresIn, users, memberships, sessions,
                   blacklist, tickets, nonce, issued, resetIssued, loggedOut>>

\* generateToken + prisma.session.create
LoginSession(p) ==
    LET r == procs[p]
        tok == generateToken(r.userId, r.workspaceId, r.role)
    IN
    /\ r.pc = "login_session"
    /\ nonce' = nonce + 1
    /\ IF SessionCreateFails(tok)
       THEN /\ Return(p, [op |-> "login", ok |-> FALSE,
                          error |-> "UniqueConstraint"])
            /\ UNCHANGED <<sessions, issued>>
       ELSE /\ sessions' = SessionCreate(tok, r.userId)
            /\ issued' = Append(issued,
                 [op |-> "login", token |-> tok, userId |-> r.userId,
                  workspaceId |-> r.workspaceId])
            /\ Goto(p, [pc |-> "login_update", op |-> "login",
                        userId |-> r.userId,
                        workspaceId |-> r.workspaceId, token |-> tok,
                        checked |-> r.checked])
    /\ UNCHANGED <<now, jwtExpiresIn, users, memberships, blacklist,
                   tickets, resetIssued, loggedOut>>

\* prisma.user.update({data: {lastLoginAt: new Date()}}) + return
LoginUpdate(p) ==
    LET r == procs[p] IN
    /\ r.pc = "login_update"
    /\ users' = [users EXCEPT ![r.userId].lastLoginAt = now]
    /\ Return(p, [op |-> "login", ok |-> TRUE, token |-> r.token,
                  userId |-> r.userId, workspaceId |-> r.workspaceId,
                  checked |-> r.checked])
    /\ UNCHANGED <<now, jwtExpiresIn, memberships, sessions, blacklist,
                   tickets, nonce, issued, resetIssued, loggedOut>>

\* ------------------------------------------- the checks of validateToken
\* mutant: the session row is looked up before anything else
ValidateSessionFirst(tok) ==
    IF SessionOf(tok) = {} THEN [ok |-> FALSE, error |-> "SessionNotFound"]
    ELSE [ok |-> TRUE]

\* first await of validateToken: redis.get(`blacklist:${token}`); a
\* rejected redis.get is caught, logged and thrown again
ValidateAtRedis(tok) ==
    IF ~cacheUp THEN [ok |-> FALSE, error |-> "CacheUnavailable"]
    ELSE IF IsBlacklisted(tok) THEN [ok |-> FALSE, error |-> "Revoked"]
    ELSE [ok |-> TRUE]

\* session.expiresAt < new Date()
SessionExpired(s) == s.expiresAt < now

\* mutant: when the database does not answer, the claims of the verified
\* token are taken as they are
ValidateAfterRedisOpen(tok) ==
    IF jwtVerify(tok) # "ok" THEN [ok |-> FALSE, error |-> jwtVerify(tok)]
    ELSE IF ~storeUp
    THEN [ok |-> TRUE, userId |-> tok.userId,
          workspaceId |-> tok.workspaceId]
    ELSE IF SessionOf(tok) = {}
    THEN [ok |-> FALSE, error |-> "SessionNotFound"]
    ELSE LET s == CHOOSE x \in SessionOf(tok) : TRUE IN
         IF SessionExpired(s)
         THEN [ok |-> FALSE, error |-> "SessionNotFound"]
         ELSE IF ~\E m \in memberships :
                     m.userId = s.userId /\ m.workspaceId = tok.workspaceId
         THEN [ok |-> FALSE, error |-> "WorkspaceNotFound"]
         ELSE [ok |-> TRUE, userId |-> s.userId,
               workspaceId |-> tok.workspaceId]

\* the rest of validateToken: jwt.verify, prisma.session.findUnique with
\* the user and the user's memberships (a rejected query is caught, logged
\* and thrown again), the expiry test, and the search for
\* payload.workspaceId among the memberships
ValidateAfterRedis(tok) ==
    IF jwtVerify(tok) # "ok" THEN [ok |-> FALSE, error |-> jwtVerify(tok)]
    ELSE IF ~storeUp THEN [ok |-> FALSE, error |-> "StoreUnavailable"]
    ELSE IF SessionOf(tok) = {}
    THEN [ok |-> FALSE, error |-> "SessionNotFound"]
    ELSE LET s == CHOOSE x \in SessionOf(tok) : TRUE IN
         IF SessionExpired(s)
         THEN [ok |-> FALSE, error |-> "SessionNotFound"]
         ELSE IF ~\E m \in memberships :
                     m.userId = s.userId /\ m.workspaceId = tok.workspaceId
         THEN [ok |-> FALSE, error |-> "WorkspaceNotFound"]
         ELSE [ok |-> TRUE, userId |-> s.userId,
               workspaceId |-> tok.workspaceId]

\* validateToken when nothing else runs between its two awaits
ValidateNow(tok) ==
    IF ~ValidateAtRedis(tok).ok THEN ValidateAtRedis(tok)
    ELSE ValidateAfterRedis(tok)

\* ----------------------------------------------------------------- logout
\* AuthService.logout(token), for any token a caller may pass
StartLogout(p, tok) ==
    /\ Free(p)
    /\ Goto(p, [pc |-> "logout_delete", op |-> "logout", token |-> tok])
    /\ UNCHANGED <<now, jwtExpiresIn, users, memberships, sessions,
                   blacklist, tickets, nonce, issued, resetIssued, loggedOut>>

\* mutant: logout leaves the row where it is
LogoutKeepRow(tok) == sessions

\* mutant: the delete is by user, not by token
LogoutDeleteByUser(tok) ==
    {s \in sessions : \A d \in SessionOf(tok) : s.userId # d.userId}

\* prisma.session.delete({where: {token}}): the table after the delete
LogoutDeleteRow(tok) == sessions \ SessionOf(tok)

\* mutant: the entry is kept for the whole configured lifetime of a token
BlacklistFullLifetime(tok) ==
    {e \in blacklist : e.token # tok}
       \cup {[token |-> tok, until |-> now + jwtExpiresIn]}

\* redis.setex(`blacklist:${token}`, ttl, '1') for the token after
\* jwt.decode: ttl = decoded.exp - now, written only if decoded.exp is
\* there and ttl > 0
BlacklistAfterLogout(tok) ==
    LET exp == jwtDecodeExp(tok)
        ttl == exp - now
    IN IF exp # NoId /\ ttl > 0
       THEN {e \in blacklist : e.token # tok}
              \cup {[token |-> tok, until |-> now + ttl]}
       ELSE blacklist

\* mutant: logout answers without deleting the row or writing the blacklist
LogoutDeleteSkipped(p) ==
    LET r == procs[p] IN
    /\ r.pc = "logout_delete"
    /\ r.op = "logout"
    /\ loggedOut' = loggedOut \cup
         {[token |-> r.token, wasValid |-> ValidateNow(r.token).ok]}
    /\ Return(p, [op |-> "logout", ok |-> TRUE, token |-> r.token])
    /\ UNCHANGED <<now, jwtExpiresIn, users, memberships, sessions,
                   blacklist, tickets, nonce, issued, resetIssued>>

\* first await of logout; prisma.session.delete throws (P2025) when no row
\* has the token.  Also the tail of refreshToken (op = "refresh").
LogoutDelete(p) ==
    LET r == procs[p] IN
    /\ r.pc = "logout_delete"
    /\ IF SessionOf(r.token) = {}
       THEN /\ IF r.op = "refresh"
               THEN Return(p, [op |-> "refresh", ok |-> FALSE,
                               token |-> r.token,
                               error |-> "RecordNotFound",
                               newToken |-> r.newToken])
               ELSE Return(p, [op |-> r.op, ok |-> FALSE,
                               token |-> r.token,
                               error |-> "RecordNotFound"])
            /\ UNCHANGED sessions
       ELSE /\ sessions' = LogoutDeleteRow(r.token)
            /\ Goto(p, [r EXCEPT !.pc = "logout_blacklist"]
                         @@ [wasValid |-> ValidateNow(r.token).ok])
    /\ UNCHANGED <<now, jwtExpiresIn, users, memberships, blacklist,
                   tickets, nonce, issued, resetIssued, loggedOut>>

LogoutBlacklist(p) ==
    LET r == procs[p] IN
    /\ r.pc = "logout_blacklist"
    /\ blacklist' = BlacklistAfterLogout(r.token)
    /\ loggedOut' = loggedOut \cup
         {[token |-> r.token, wasValid |-> r.wasValid]}
    /\ IF r.op = "refresh"
       THEN Return(p, [op |-> "refresh", ok |-> TRUE, token |-> r.newToken,
                       userId |-> r.userId, workspaceId |-> r.workspaceId])
       ELSE Return(p, [op |-> "logout", ok |-> TRUE, token |-> r.token])
    /\ UNCHANGED <<now, jwtExpiresIn, users, memberships, sessions,
                   tickets, nonce, issued, resetIssued>>

\* ---------------------------------------------------------- validateToken
StartValidate(p, tok) ==
    /\ Free(p)
    /\ Goto(p, [pc |-> "val_redis", op |-> "validate", token |-> tok])
    /\ UNCHANGED <<now, jwtExpiresIn, users, memberships, sessions,
                   blacklist, tickets, nonce, issued, resetIssued, loggedOut>>

\* what the caller of validateToken does with a failure: validateToken
\* itself and refreshToken rethrow it, the authenticate middleware answers
\* 401 'Invalid or expired token'
ValidateFailure(p, v) ==
    IF procs[p].op \in {"validate", "refresh"}
    THEN Return(p, [op |-> procs[p].op, token |-> procs[p].token] @@ v)
    ELSE Return(p, [op |-> procs[p].op, ok |-> FALSE,
                    error |-> "Unauthorized", token |-> procs[p].token])

ValidateRedis(p) ==
    LET r == procs[p]
        v == ValidateAtRedis(r.token)
    IN
    /\ r.pc = "val_redis"
    /\ IF ~v.ok
       THEN ValidateFailure(p, v)
       ELSE Goto(p, [r EXCEPT !.pc = "val_session"])
    /\ UNCHANGED <<now, jwtExpiresIn, users, memberships, sessions,
                   blacklist, tickets, nonce, issued, resetIssued, loggedOut>>

\* where a request goes once its token is validated
AfterValidate(r, v) ==
    IF r.op = "refresh"
    THEN [pc |-> "rf_user", op |-> "refresh", token |-> r.token,
          userId |-> v.userId, workspaceId |-> v.workspaceId]
    ELSE IF r.op = "changePassword"
    THEN [pc |-> "cp_find", op |-> "changePassword", token |-> r.token,
          userId |-> v.userId, cur |-> r.cur, new |-> r.new]
    ELSE [pc |-> "inv_role", op |-> "invite", token |-> r.token,
          userId |-> v.userId, workspaceId |-> v.workspaceId,
          email |-> r.email, role |-> r.role]

ValidateSession(p) ==
    LET r == procs[p]
        v == ValidateAfterRedis(r.token)
    IN
    /\ r.pc = "val_session"
    /\ IF ~v.ok THEN ValidateFailure(p, v)
       ELSE IF r.op = "validate"
       THEN Return(p, [op |-> "validate", token |-> r.token] @@ v)
       ELSE Goto(p, AfterValidate(r, v))
    /\ UNCHANGED <<now, jwtExpiresIn, users, memberships, sessions,
                   blacklist, tickets, nonce, issued, resetIssued, loggedOut>>

\* ----------------------------------------------------------- refreshToken
StartRefresh(p, tok) ==
    /\ Free(p)
    /\ Goto(p, [pc |-> "val_redis", op |-> "refresh", token |-> tok])
    /\ UNCHANGED <<now, jwtExpiresIn, users, memberships, sessions,
                   blacklist, tickets, nonce, issued, resetIssued, loggedOut>>

\* mutant: the new token is given the role of an owner
RefreshRoleOwner(uid, ws) == "OWNER"

\* userWorkspace?.role || 'USER'
RefreshRole(uid, ws) ==
    LET ms == {m \in memberships : m.userId = uid /\ m.workspaceId = ws}
    IN IF ms = {} THEN "USER" ELSE (CHOOSE m \in ms : TRUE).role

\* prisma.user.findUnique({where: {id}, include: {workspaces: true}})
RefreshUser(p) ==
    LET r == procs[p] IN
    /\ r.pc = "rf_user"
    /\ IF r.userId \notin UserIds
       THEN Return(p, [op |-> "refresh", ok |-> FALSE,
                       error |-> "UserNotFound"])
       ELSE Goto(p, [r EXCEPT !.pc = "rf_session"]
                      @@ [role |-> RefreshRole(r.userId, r.workspaceId)])
    /\ UNCHANGED <<now, jwtExpiresIn, users, memberships, sessions,
                   blacklist, tickets, nonce, issued, resetIssued, loggedOut>>

\* mutant: the old session is given up before a new row is written
RefreshSessionNoRow(p) ==
    LET r == procs[p]
        tok == generateToken(r.userId, r.workspaceId, r.role)
    IN
    /\ r.pc = "rf_session"
    /\ nonce' = nonce + 1
    /\ issued' = Append(issued,
          [op |-> "refresh", token |-> tok, userId |-> r.userId,
           workspaceId |-> r.workspaceId])
    /\ Goto(p, [pc |-> "logout_delete", op |-> "refresh",
                token |-> r.token, newToken |-> tok, userId |-> r.userId,
                workspaceId |-> r.workspaceId])
    /\ UNCHANGED <<now, jwtExpiresIn, users, memberships, sessions,
                   blacklist, tickets, resetIssued, loggedOut>>

\* generateToken + prisma.session.create, then on to this.logout(oldToken)
RefreshSession(p) ==
    LET r == procs[p]
        tok == generateToken(r.userId, r.workspaceId, r.role)
    IN
    /\ r.pc = "rf_session"
    /\ nonce' = nonce + 1
    /\ IF SessionCreateFails(tok)
       THEN /\ Return(p, [op |-> "refresh", ok |-> FALSE,
                          error |-> "UniqueConstraint"])
            /\ UNCHANGED <<sessions, issued>>
       ELSE /\ sessions' = SessionCreate(tok, r.userId)
            /\ issued' = Append(issued,
                 [op |-> "refresh", token |-> tok, userId |-> r.userId,
                  workspaceId |-> r.workspaceId])
            /\ Goto(p, [pc |-> "logout_delete", op |-> "refresh",
                        token |-> r.token, newToken |-> tok,
                        userId |-> r.userId,
                        workspaceId |-> r.workspaceId])
    /\ UNCHANGED <<now, jwtExpiresIn, users, memberships, blacklist,
                   tickets, resetIssued, loggedOut>>

\* ------------------------------------------------- forgotPassword (HTTP)
StartForgot(p, email) ==
    /\ Free(p)
    /\ Goto(p, [pc |-> "gp_find", op |-> "forgot", email |-> email])
    /\ UNCHANGED <<now, jwtExpiresIn, users, memberships, sessions,
                   blacklist, tickets, nonce, issued, resetIssued, loggedOut>>

\* res.status(200).json({success, message, data: {resetToken}})
ForgotFoundResponse ==
    [op |-> "forgot", ok |-> TRUE, status |-> 200,
     message |-> "Password reset instructions sent to your email",
     data |-> "resetToken"]

\* the catch branch of AuthController.forgotPassword
ForgotMissingResponse ==
    [op |-> "forgot", ok |-> TRUE, status |-> 200,
     message |-> "If an account with that email exists", data |-> Null]

\* generatePasswordResetToken: prisma.user.findUnique, 'User not found'
\* is caught by the controller; else the reset token is signed
ForgotFind(p) ==
    LET r == procs[p]
        found == UsersByEmail(toLowerCase(r.email))
    IN
    /\ r.pc = "gp_find"
    /\ IF found = {}
       THEN Return(p, ForgotMissingResponse)
       ELSE \E uid \in found :
              Goto(p, [pc |-> "gp_setex", op |-> "forgot", userId |-> uid,
                       token |-> SignReset(uid, now)])
    /\ UNCHANGED <<now, jwtExpiresIn, users, memberships, sessions,
                   blacklist, tickets, nonce, issued, resetIssued, loggedOut>>

\* redis.setex(`password_reset:${user.id}`, 3600, resetToken) + response
ForgotStore(p) ==
    LET r == procs[p] IN
    /\ r.pc = "gp_setex"
    /\ tickets' = {k \in tickets : k.userId # r.userId}
         \cup {[userId |-> r.userId, token |-> r.token,
                until |-> now + ResetTTL]}
    /\ resetIssued' = resetIssued \cup {r.token}
    /\ Return(p, ForgotFoundResponse)
    /\ UNCHANGED <<now, jwtExpiresIn, users, memberships, sessions,
                   blacklist, nonce, issued, loggedOut>>

\* ---------------------------------------------------------- resetPassword
StartReset(p, tok, new) ==
    /\ Free(p)
    /\ Goto(p, [pc |-> "rp_get", op |-> "reset", token |-> tok,
                new |-> new])
    /\ UNCHANGED <<now, jwtExpiresIn, users, memberships, sessions,
                   blacklist, tickets, nonce, issued, resetIssued, loggedOut>>

\* mutant: any well-signed reset token of a user with a pending reset passes
ResetCheckAnySlot(tok) ==
    IF jwtVerify(tok) # "ok" THEN jwtVerify(tok)
    ELSE IF tok.typ # "password_reset" THEN "InvalidResetToken"
    ELSE IF ~\E k \in tickets : k.userId = tok.userId /\ k.until > now
    THEN "ResetTokenExpiredOrInvalid"
    ELSE "ok"

\* jwt.verify, the type tag, and the compare with redis.get of the slot
ResetCheck(tok) ==
    IF jwtVerify(tok) # "ok" THEN jwtVerify(tok)
    ELSE IF tok.typ # "password_reset" THEN "InvalidResetToken"
    ELSE IF ~\E k \in tickets :
                k.userId = tok.userId /\ k.until > now /\ k.token = tok
    THEN "ResetTokenExpiredOrInvalid"
    ELSE "ok"

ResetGet(p) ==
    LET r == procs[p]
        check == ResetCheck(r.token)
    IN
    /\ r.pc = "rp_get"
    /\ IF jwtVerify(r.token) = "ok" /\ r.token.typ = "password_reset"
          /\ ~cacheUp
       THEN Return(p, [op |-> "reset", ok |-> FALSE,
                       error |-> "CacheUnavailable", token |-> r.token])
       ELSE IF check # "ok"
       THEN Return(p, [op |-> "reset", ok |-> FALSE, error |-> check,
                       token |-> r.token])
       ELSE Goto(p, [pc |-> "rp_update", op |-> "reset",
                     userId |-> r.token.userId, new |-> r.new,
                     token |-> r.token])
    /\ UNCHANGED <<now, jwtExpiresIn, users, memberships, sessions,
                   blacklist, tickets, nonce, issued, resetIssued, loggedOut>>

\* prisma.user.update({where: {id}, data: {passwordHash}})
ResetUpdate(p) ==
    LET r == procs[p] IN
    /\ r.pc = "rp_update"
    /\ users' = [users EXCEPT ![r.userId].passwordHash = bcryptHash(r.new)]
    /\ Goto(p, [pc |-> "rp_del", op |-> "reset", userId |-> r.userId,
                token |-> r.token])
    /\ UNCHANGED <<now, jwtExpiresIn, memberships, sessions, blacklist,
                   tickets, nonce, issued, resetIssued, loggedOut>>

\* redis.del(`password_reset:${payload.userId}`); a rejected del is
\* caught, logged and thrown again, and the call ends there
ResetDel(p) ==
    LET r == procs[p] IN
    /\ r.pc = "rp_del"
    /\ IF ~cacheUp
       THEN /\ Return(p, [op |-> "reset", ok |-> FALSE,
                          error |-> "CacheUnavailable", token |-> r.token,
                          userId |-> r.userId])
            /\ UNCHANGED tickets
       ELSE /\ tickets' = {k \in tickets : k.userId # r.userId}
            /\ Goto(p, [r EXCEPT !.pc = "rp_sessions"])
    /\ UNCHANGED <<now, jwtExpiresIn, users, memberships, sessions,
                   blacklist, nonce, issued, resetIssued, loggedOut>>

\* mutant: the reset leaves the sessions alone
ResetDeleteNone(uid) == sessions

\* prisma.session.deleteMany({where: {userId}}): the table afterwards
ResetDeleteMany(uid) == {s \in sessions : s.userId # uid}

ResetSessions(p) ==
    LET r == procs[p] IN
    /\ r.pc = "rp_sessions"
    /\ sessions' = ResetDeleteMany(r.userId)
    /\ Return(p, [op |-> "reset", ok |-> TRUE, userId |-> r.userId,
                  token |-> r.token])
    /\ UNCHANGED <<now, jwtExpiresIn, users, memberships, blacklist,
                   tickets, nonce, issued, resetIssued, loggedOut>>

\* ------------------------------------------ changePassword (HTTP, authed)
StartChangePassword(p, tok, cur, new) ==
    /\ Free(p)
    /\ Goto(p, [pc |-> "val_redis", op |-> "changePassword", token |-> tok,
                cur |-> cur, new |-> new])
    /\ UNCHANGED <<now, jwtExpiresIn, users, memberships, sessions,
                   blacklist, tickets, nonce, issued, resetIssued, loggedOut>>

\* prisma.user.findUnique({select: {passwordHash}}) + bcrypt.compare
ChangePasswordFind(p) ==
    LET r == procs[p]
        fail(e) == Return(p, [op |-> "changePassword", ok |-> FALSE,
                              error |-> e])
    IN
    /\ r.pc = "cp_find"
    /\ IF r.userId \notin UserIds THEN fail("InvalidAccount")
       ELSE IF users[r.userId].passwordHash = NoHash
       THEN fail("InvalidAccount")
       ELSE IF ~bcryptCompare(r.cur, users[r.userId].passwordHash)
       THEN fail("CurrentPasswordIncorrect")
       ELSE Goto(p, [pc |-> "cp_update", op |-> "changePassword",
                     token |-> r.token, userId |-> r.userId,
                     new |-> r.new])
    /\ UNCHANGED <<now, jwtExpiresIn, users, memberships, sessions,
                   blacklist, tickets, nonce, issued, resetIssued, loggedOut>>

\* prisma.user.update({data: {passwordHash}})
ChangePasswordUpdate(p) ==
    LET r == procs[p] IN
    /\ r.pc = "cp_update"
    /\ users' = [users EXCEPT ![r.userId].passwordHash = bcryptHash(r.new)]
    /\ Goto(p, [pc |-> "cp_sessions", op |-> "changePassword",
                token |-> r.token, userId |-> r.userId])
    /\ UNCHANGED <<now, jwtExpiresIn, memberships, sessions, blacklist,
                   tickets, nonce, issued, resetIssued, loggedOut>>

\* mutant: every session of the user goes, the current one too
ChangePasswordDeleteAll(uid, cur) == {s \in sessions : s.userId # uid}

\* prisma.session.deleteMany({where: {userId, token: {not: currentToken}}})
ChangePasswordDeleteMany(uid, cur) ==
    {s \in sessions : ~(s.userId = uid /\ s.token # cur)}

ChangePasswordSessions(p) ==
    LET r == procs[p] IN
    /\ r.pc = "cp_sessions"
    /\ sessions' = ChangePasswordDeleteMany(r.userId, r.token)
    /\ Return(p, [op |-> "changePassword", ok |-> TRUE,
                  token |-> r.token, userId |-> r.userId])
    /\ UNCHANGED <<now, jwtExpiresIn, users, memberships, blacklist,
                   tickets, nonce, issued, resetIssued, loggedOut>>

\* ---------------------------------------------- inviteUser (HTTP, authed)
StartInvite(p, tok, email, role) ==
    /\ Free(p)
    /\ Goto(p, [pc |-> "val_redis", op |-> "invite", token |-> tok,
                email |-> email, role |-> role])
    /\ UNCHANGED <<now, jwtExpiresIn, users, memberships, sessions,
                   blacklist, tickets, nonce, issued, resetIssued, loggedOut>>

\* mutant: the role is taken from the claim of the token
InviteRoleByToken(p) ==
    LET r == procs[p] IN
    /\ r.pc = "inv_role"
    /\ IF r.token.role \in {"OWNER", "ADMIN"}
       THEN Goto(p, [r EXCEPT !.pc = "inv_find"])
       ELSE Return(p, [op |-> "invite", ok |-> FALSE,
                       error |-> "InsufficientRole", token |-> r.token])
    /\ UNCHANGED <<now, jwtExpiresIn, users, memberships, sessions,
                   blacklist, tickets, nonce, issued, resetIssued, loggedOut>>

\* requireRole(['OWNER', 'ADMIN']): prisma.workspaceUser.findUnique
InviteRole(p) ==
    LET r == procs[p] IN
    /\ r.pc = "inv_role"
    /\ IF \E m \in memberships :
            /\ m.userId = r.userId /\ m.workspaceId = r.workspaceId
            /\ m.role \in {"OWNER", "ADMIN"}
       THEN Goto(p, [r EXCEPT !.pc = "inv_find"])
       ELSE Return(p, [op |-> "invite", ok |-> FALSE,
                       error |-> "InsufficientRole", token |-> r.token])
    /\ UNCHANGED <<now, jwtExpiresIn, users, memberships, sessions,
                   blacklist, tickets, nonce, issued, resetIssued, loggedOut>>

\* prisma.user.findUnique({where: {email: email.toLowerCase()}})
InviteFind(p) ==
    LET r == procs[p]
        found == UsersByEmail(toLowerCase(r.email))
    IN
    /\ r.pc = "inv_find"
    /\ IF found = {}
       THEN Goto(p, [r EXCEPT !.pc = "inv_create"])
       ELSE \E uid \in found :
              Goto(p, [pc |-> "inv_member", op |-> "invite",
                       workspaceId |-> r.workspaceId, invited |-> uid,
                       role |-> r.role])
    /\ UNCHANGED <<now, jwtExpiresIn, users, memberships, sessions,
                   blacklist, tickets, nonce, issued, resetIssued, loggedOut>>

\* prisma.user.create of the placeholder: no passwordHash
InviteCreate(p) ==
    LET r == procs[p]
        uid == Cardinality(UserIds) + 1
    IN
    /\ r.pc = "inv_create"
    /\ IF UsersByEmail(toLowerCase(r.email)) # {}
       THEN /\ Return(p, [op |-> "invite", ok |-> FALSE,
                          error |-> "UniqueConstraint"])
            /\ UNCHANGED users
       ELSE /\ users' = users @@ (uid :> [email |-> toLowerCase(r.email),
                                          passwordHash |-> NoHash,
                                          lastLoginAt |-> Never])
            /\ Goto(p, [pc |-> "inv_member", op |-> "invite",
                        workspaceId |-> r.workspaceId, invited |-> uid,
                        role |-> r.role])
    /\ UNCHANGED <<now, jwtExpiresIn, memberships, sessions, blacklist,
                   tickets, nonce, issued, resetIssued, loggedOut>>

\* prisma.workspaceUser.findUnique: already a member?
InviteMember(p) ==
    LET r == procs[p] IN
    /\ r.pc = "inv_member"
    /\ IF \E m \in memberships :
            m.userId = r.invited /\ m.workspaceId = r.workspaceId
       THEN Return(p, [op |-> "invite", ok |-> FALSE,
                       error |-> "AlreadyMember"])
       ELSE Goto(p, [r EXCEPT !.pc = "inv_add"])
    /\ UNCHANGED <<now, jwtExpiresIn, users, memberships, sessions,
                   blacklist, tickets, nonce, issued, resetIssued, loggedOut>>

\* prisma.workspaceUser.create; (workspaceId, userId) is @@unique
InviteAdd(p) ==
    LET r == procs[p] IN
    /\ r.pc = "inv_add"
    /\ IF \E m \in memberships :
            m.userId = r.invited /\ m.workspaceId = r.workspaceId
       THEN /\ Return(p, [op |-> "invite", ok |-> FALSE,
                          error |-> "UniqueConstraint"])
            /\ UNCHANGED memberships
       ELSE /\ memberships' = memberships \cup
                 {[workspaceId |-> r.workspaceId, userId |-> r.invited,
                   role |-> r.role]}
            /\ Return(p, [op |-> "invite", ok |-> TRUE])
    /\ UNCHANGED <<now, jwtExpiresIn, users, sessions, blacklist, tickets,
                   nonce, issued, resetIssued, loggedOut>>

\* ------------------------------- the workspace_users table, written to
\* ------------------------------- from outside the request handlers
\* a membership row is deleted (prisma.workspaceUser.deleteMany)
DirectoryRemove(m) ==
    /\ m \in memberships
    /\ memberships' = memberships \ {m}
    /\ resp' = NoResp
    /\ UNCHANGED <<now, jwtExpiresIn, users, sessions, blacklist, tickets,
                   nonce, issued, resetIssued, loggedOut, procs>>
    /\ UNCHANGED envVars

\* the role of a membership row is lowered to USER
DirectoryDowngrade(m) ==
    /\ m \in memberships
    /\ m.role # "USER"
    /\ memberships' = (memberships \ {m}) \cup {[m EXCEPT !.role = "USER"]}
    /\ resp' = NoResp
    /\ UNCHANGED <<now, jwtExpiresIn, users, sessions, blacklist, tickets,
                   nonce, issued, resetIssued, loggedOut, procs>>
    /\ UNCHANGED envVars

\* ------------------------------------------------- authRateLimit
\* authRateLimit(15 * 60 * 1000, 5) on /register and
\* authRateLimit(15 * 60 * 1000, 10) on /login, with the window as the unit
\* of time and the two limits scaled down in the same order
RegisterMaxAttempts == 1
LoginMaxAttempts == 2
RateWindow == 1
MaxAttempts(op) ==
    IF op = "register" THEN RegisterMaxAttempts ELSE LoginMaxAttempts

\* the route handler that next() hands the request to
RateNext(r) ==
    [pc |-> IF r.op = "register" THEN "reg_find" ELSE "login_find",
     op |-> r.op, email |-> r.email, pw |-> r.pw]

\* a request enters a rate-limited route; every client has the same req.ip,
\* so all of them share the key auth_rate_limit:<ip>
StartLimited(p, op, email, pw) ==
    /\ Free(p)
    /\ Goto(p, [pc |-> "rl_get", op |-> op, email |-> email, pw |-> pw])
    /\ UNCHANGED <<now, jwtExpiresIn, users, memberships, sessions,
                   blacklist, tickets, nonce, issued, resetIssued, loggedOut>>

\* mutant: the request is turned away only above the limit
RateExceededStrict(attempts, maxAttempts) == attempts > maxAttempts

\* if (attempts >= maxAttempts)
RateExceeded(attempts, maxAttempts) == attempts >= maxAttempts

\* mutant: a failure of the counter turns the request away
RateOnErrorReject(p) ==
    LET r == procs[p] IN
    Return(p, [op |-> r.op, ok |-> FALSE, error |-> "RateLimited",
               email |-> r.email, pw |-> r.pw])

\* catch (error) { logger.error('Rate limiting error', ...); next() }
RateOnError(p) ==
    LET r == procs[p] IN
    /\ procs' = [procs EXCEPT ![p] = RateNext(r)]
    /\ resp' = [op |-> "log", error |-> "Rate limiting error",
                route |-> r.op]
    /\ UNCHANGED envVars

\* const current = await redis.get(key); the 429 when the count is full
RateGet(p) ==
    LET r == procs[p] IN
    /\ r.pc = "rl_get"
    /\ IF ~cacheUp THEN RateOnError(p)
       ELSE IF RateExceeded(rate.count, MaxAttempts(r.op))
       THEN Return(p, [op |-> r.op, ok |-> FALSE, error |-> "RateLimited",
                       email |-> r.email, pw |-> r.pw])
       ELSE Goto(p, [r EXCEPT !.pc = "rl_incr"])
    /\ UNCHANGED <<now, jwtExpiresIn, users, memberships, sessions,
                   blacklist, tickets, nonce, issued, resetIssued, loggedOut>>

\* await redis.multi().incr(key).expire(key, ceil(windowMs / 1000)).exec()
\* and next()
RateIncr(p) ==
    LET r == procs[p] IN
    /\ r.pc = "rl_incr"
    /\ IF ~cacheUp THEN RateOnError(p)
       ELSE /\ rate' = [count |-> rate.count + 1, until |-> now + RateWindow]
            /\ passed' = [passed EXCEPT ![r.op] = @ + 1]
            /\ procs' = [procs EXCEPT ![p] = RateNext(r)]
            /\ resp' = NoResp
            /\ UNCHANGED <<cacheUp, storeUp>>
    /\ UNCHANGED <<now, jwtExpiresIn, users, memberships, sessions,
                   blacklist, tickets, nonce, issued, resetIssued, loggedOut>>

\* ------------------------------------------- Redis goes away and comes back
CacheFails ==
    /\ cacheUp
    /\ cacheUp' = FALSE
    /\ resp' = NoResp
    /\ UNCHANGED <<storeUp, rate, passed>>
    /\ UNCHANGED <<now, jwtExpiresIn, users, memberships, sessions,
                   blacklist, tickets, nonce, issued, resetIssued, loggedOut,
                   procs>>

CacheRecovers ==
    /\ ~cacheUp
    /\ cacheUp' = TRUE
    /\ resp' = NoResp
    /\ UNCHANGED <<storeUp, rate, passed>>
    /\ UNCHANGED <<now, jwtExpiresIn, users, memberships, sessions,
                   blacklist, tickets, nonce, issued, resetIssued, loggedOut,
                   procs>>

\* FLUSHALL, or Redis restarted without its data: the blacklist, the
\* password-reset keys and the attempt counters are gone
CacheFlush ==
    /\ blacklist' = {}
    /\ tickets' = {}
    /\ rate' = NoRate
    /\ resp' = [op |-> "flush"]
    /\ UNCHANGED <<cacheUp, storeUp, passed>>
    /\ UNCHANGED <<now, jwtExpiresIn, users, memberships, sessions, nonce,
                   issued, resetIssued, loggedOut, procs>>

\* --------------------------------------- the database goes away and comes
\* --------------------------------------- back
StoreFails ==
    /\ storeUp
    /\ storeUp' = FALSE
    /\ resp' = NoResp
    /\ UNCHANGED <<cacheUp, rate, passed>>
    /\ UNCHANGED <<now, jwtExpiresIn, users, memberships, sessions,
                   blacklist, tickets, nonce, issued, resetIssued, loggedOut,
                   procs>>

StoreRecovers ==
    /\ ~storeUp
    /\ storeUp' = TRUE
    /\ resp' = NoResp
    /\ UNCHANGED <<cacheUp, rate, passed>>
    /\ UNCHANGED <<now, jwtExpiresIn, users, memberships, sessions,
                   blacklist, tickets, nonce, issued, resetIssued, loggedOut,
                   procs>>

\* ------------------------------------------------------------------- Next
\* the tokens a client sends where a session token is expected
BearerTokens == IssuedTokens \cup {Garbage}

\* AuthService.register of a request that has reached the controller
RegisterRun ==
    \/ \E p \in Clients : RegisterFind(p)
    \/ \E p \in Clients : RegisterTx(p)
    \/ \E p \in Clients : RegisterSession(p)

RegisterSteps(emails, cap) ==
    \/ \E p \in Clients, e \in emails, pw \in SignupPasswords :
          CanCreateUser /\ CanIssueToken(cap) /\ StartRegister(p, e, pw)
    \/ RegisterRun

\* AuthService.login of a request that has reached the controller
LoginRun ==
    \/ \E p \in Clients : LoginFind(p)
    \/ \E p \in Clients : LoginSession(p)
    \/ \E p \in Clients : LoginUpdate(p)

LoginSteps(emails, pws, cap) ==
    \/ \E p \in Clients, e \in emails, pw \in pws :
          CanIssueToken(cap) /\ StartLogin(p, e, pw)
    \/ LoginRun

\* the two routes behind authRateLimit
RateSteps(emails, cap) ==
    \/ \E p \in Clients, e \in emails, pw \in SignupPasswords :
          CanCreateUser /\ CanIssueToken(cap)
              /\ StartLimited(p, "register", e, pw)
    \/ \E p \in Clients, e \in emails, pw \in Passwords :
          CanIssueToken(cap) /\ StartLimited(p, "login", e, pw)
    \/ \E p \in Clients : RateGet(p)
    \/ \E p \in Clients : RateIncr(p)

CacheSteps ==
    \/ CacheFails
    \/ CacheRecovers

LogoutSteps ==
    \/ \E p \in Clients, t \in BearerTokens : StartLogout(p, t)
    \/ \E p \in Clients : LogoutDelete(p)
    \/ \E p \in Clients : LogoutBlacklist(p)

\* the authenticate middleware of a request that is already under way
AuthenticateSteps ==
    \/ \E p \in Clients : ValidateRedis(p)
    \/ \E p \in Clients : ValidateSession(p)

ValidateSteps ==
    \/ \E p \in Clients, t \in TokenUniverse : StartValidate(p, t)
    \/ AuthenticateSteps

RefreshSteps(cap) ==
    \/ \E p \in Clients, t \in BearerTokens :
          CanIssueToken(cap) /\ StartRefresh(p, t)
    \/ \E p \in Clients : RefreshUser(p)
    \/ \E p \in Clients : RefreshSession(p)

ForgotSteps ==
    \/ \E p \in Clients, e \in RawEmails : StartForgot(p, e)
    \/ \E p \in Clients : ForgotFind(p)
    \/ \E p \in Clients : ForgotStore(p)

\* AuthService.resetPassword of a request that has reached the service
ResetRun ==
    \/ \E p \in Clients : ResetGet(p)
    \/ \E p \in Clients : ResetUpdate(p)
    \/ \E p \in Clients : ResetDel(p)
    \/ \E p \in Clients : ResetSessions(p)

ResetSteps ==
    \/ \E p \in Clients, t \in resetIssued \cup BearerTokens,
          pw \in Passwords : StartReset(p, t, pw)
    \/ ResetRun

\* the reset tokens that are in their slot
PendingResets == {k.token : k \in tickets}

\* a user asks for one reset token at a time and uses the one received
ResetLatestSteps ==
    \/ tickets = {} /\ ForgotSteps
    \/ \E p \in Clients, t \in PendingResets, pw \in SignupPasswords :
          StartReset(p, t, pw)
    \/ ResetRun

ChangePasswordSteps ==
    \/ \E p \in Clients, t \in BearerTokens, c \in Passwords,
          n \in Passwords : StartChangePassword(p, t, c, n)
    \/ \E p \in Clients : ChangePasswordFind(p)
    \/ \E p \in Clients : ChangePasswordUpdate(p)
    \/ \E p \in Clients : ChangePasswordSessions(p)

\* a request to POST /workspaces/invite arrives
InviteStart ==
    \E p \in Clients, t \in BearerTokens, e \in InviteEmails,
       ro \in {"USER", "ADMIN"} :
          /\ CanCreateUser \/ UsersByEmail(toLowerCase(e)) # {}
          /\ StartInvite(p, t, e, ro)

\* requireRole and inviteUser of a request that has passed authenticate
InviteRun ==
    \/ \E p \in Clients : InviteRole(p)
    \/ \E p \in Clients : InviteFind(p)
    \/ \E p \in Clients : InviteCreate(p)
    \/ \E p \in Clients : InviteMember(p)
    \/ \E p \in Clients : InviteAdd(p)

InviteSteps ==
    \/ InviteStart
    \/ InviteRun

StoreSteps ==
    \/ StoreFails
    \/ StoreRecovers

\* the token lifecycle, one request at a time, with the clock
Next ==
    \/ Tick
    \/ RegisterSteps(RawEmails, MaxTimedTokens)
    \/ LoginSteps(RawEmails, Passwords, MaxTimedTokens)
    \/ LogoutSteps
    \/ ValidateSteps
    \/ RefreshSteps(MaxTimedTokens)

Spec == Init /\ [][Next]_vars

\* the password operations, one request at a time
NextPw ==
    \/ RegisterSteps(RawEmails, MaxTokens)
    \/ LoginSteps(RawEmails, Passwords, MaxTokens)
    \/ ValidateSteps
    \/ ForgotSteps
    \/ ResetSteps
    \/ ChangePasswordSteps

SpecPw == Init /\ [][NextPw]_vars

\* accounts, invitations and logins
NextInvite ==
    \/ RegisterSteps(RawEmails, MaxTokens)
    \/ AuthenticateSteps
    \/ InviteSteps
    \/ LoginSteps(RawEmails, Passwords, MaxTokens)

SpecInvite == Init /\ [][NextInvite]_vars

\* requests of NumClients clients on one account, interleaved at their
\* awaits
NextConc ==
    \/ RegisterSteps(SameEmails, MaxTokens)
    \/ LoginSteps(SameEmails, SignupPasswords, MaxTokens)
    \/ LogoutSteps

SpecConc == InitConc /\ [][NextConc]_vars

DirectorySteps ==
    \/ \E m \in memberships : DirectoryRemove(m)
    \/ \E m \in memberships : DirectoryDowngrade(m)

\* the tokens of one account in use while the memberships change
NextDir ==
    \/ RegisterSteps(SameEmails, MaxTimedTokens)
    \/ ValidateSteps
    \/ RefreshSteps(MaxTimedTokens)
    \/ LogoutSteps
    \/ InviteSteps
    \/ DirectorySteps

SpecDir == Init /\ [][NextDir]_vars

\* register and login behind the rate limiter, NumClients clients of one
\* address, with the clock and a Redis that can fail
NextRate ==
    \/ Tick
    \/ RateSteps({"a@x"}, MaxTimedTokens)
    \/ RegisterRun
    \/ LoginRun
    \/ CacheSteps

SpecRate == InitConc /\ [][NextRate]_vars

\* tokens in use while Redis and the database fail and recover; register
\* and the handlers behind authenticate are followed while the database
\* answers
NextFail ==
    \/ storeUp /\ RegisterSteps(SameEmails, MaxTimedTokens)
    \/ ValidateSteps
    \/ InviteStart
    \/ storeUp /\ InviteRun
    \/ CacheSteps
    \/ StoreSteps

SpecFail == Init /\ [][NextFail]_vars

\* the ways a token stops being accepted, with Redis emptied at any moment
NextFlush ==
    \/ RegisterSteps(SameEmails, MaxTimedTokens)
    \/ LoginSteps(SameEmails, SignupPasswords, MaxTimedTokens)
    \/ LogoutSteps
    \/ ValidateSteps
    \/ ForgotSteps
    \/ ResetSteps
    \/ ChangePasswordSteps
    \/ CacheFlush

SpecFlush == Init /\ [][NextFlush]_vars

\* registrations while the database fails and recovers
NextReg ==
    \/ RegisterSteps(RawEmails, MaxTokens)
    \/ StoreSteps

SpecReg == Init /\ [][NextReg]_vars

\* reset tokens asked for at different times, with the clock
NextTicket ==
    \/ Tick
    \/ RegisterSteps({"a@x"}, MaxTimedTokens)
    \/ ForgotSteps
    \/ ResetSteps

SpecTicket == Init /\ [][NextTicket]_vars

\* the whole life of the tokens of one account: issued, refreshed, logged
\* out, invalidated by a reset, run out, with Redis emptied at any moment;
\* a unit of the clock is long, and passes between two requests
NextLife ==
    \/ (\A p \in Clients : Free(p)) /\ Tick
    \/ RegisterSteps({"a@x"}, MaxTimedTokens)
    \/ LoginSteps({"a@x"}, SignupPasswords, MaxTimedTokens)
    \/ RefreshSteps(MaxTimedTokens)
    \/ LogoutSteps
    \/ AuthenticateSteps
    \/ ResetLatestSteps
    \/ CacheFlush

\* the default deployment: JWT_EXPIRES_IN is '7d', the lifetime of the row
InitLife ==
    /\ Init
    /\ jwtExpiresIn = SessionTTL

SpecLife == InitLife /\ [][NextLife]_vars

\* logins and password resets of one account by NumClients clients,
\* interleaved at their awaits
NextRace ==
    \/ RegisterSteps({"a@x"}, MaxTimedTokens)
    \/ LoginSteps({"a@x"}, SignupPasswords, MaxTimedTokens)
    \/ ForgotSteps
    \/ \E p \in Clients, t \in PendingResets, pw \in Passwords :
          StartReset(p, t, pw)
    \/ ResetRun

SpecRace == InitConc /\ [][NextRace]_vars

\* password resets while Redis fails and recovers; reset tokens are asked
\* for while Redis answers
NextResetFail ==
    \/ RegisterSteps({"a@x"}, MaxTimedTokens)
    \/ cacheUp /\ ForgotSteps
    \/ ResetSteps
    \/ CacheSteps

SpecResetFail == Init /\ [][NextResetFail]_vars

\* refreshes and logouts of the tokens of one account by NumClients
\* clients, interleaved at their awaits
NextRefresh ==
    \/ RegisterSteps({"a@x"}, MaxTokens)
    \/ AuthenticateSteps
    \/ RefreshSteps(MaxTokens)
    \/ LogoutSteps

SpecRefresh == InitConc /\ [][NextRefresh]_vars

\* ================================================================ claims
\* client p takes the step
Steps(p) == procs'[p] # procs[p]
\* client p is answered in the step
Returns(p) == procs[p].pc # "idle" /\ procs'[p].pc = "idle"
\* the tokens handed to user uid so far
TokensOf(uid) ==
    {issued[i].token : i \in {j \in 1..Len(issued) : issued[j].userId = uid}}

\* what C1 asks of one step
C1_Step ==
    /\ \A e \in {issued'[i] : i \in (Len(issued) + 1)..Len(issued')} :
          /\ e.token \notin IssuedTokens
          /\ Cardinality(SessionOf(e.token)') = 1
          /\ ValidateNow(e.token)'.ok
    /\ \A t \in IssuedTokens :
          (/\ ValidateNow(t).ok
           /\ ~\E p \in Clients :
                 Steps(p) /\ procs[p].op = "logout" /\ procs[p].token = t)
          => ValidateNow(t)'.ok

\* C1: any two successful logins of one identity return distinct tokens
\* with a Session row each; each token passes validateToken from the moment
\* its row exists, and keeps passing it through every step that is not a
\* logout of that very token - in particular through the logout of another
\* token of the same identity.
C1_DistinctConcurrentSessions == [][C1_Step]_vars

\* two login tokens of one identity, one logged out a moment ago and
\* rejected, the other still accepted
C1_Witness ==
    /\ resp.op = "logout" /\ resp.ok
    /\ \E i, j \in 1..Len(issued) :
          /\ i # j
          /\ issued[i].op = "login" /\ issued[j].op = "login"
          /\ issued[i].userId = issued[j].userId
          /\ issued[i].token = resp.token
          /\ ~ValidateNow(issued[i].token).ok
          /\ ValidateNow(issued[j].token).ok

\* C2 as stated: once logout has returned for a token that was valid,
\* validateToken on it fails with Revoked or SessionNotFound ever after.
C2_Original ==
    \A l \in loggedOut :
       l.wasValid =>
          /\ ~ValidateNow(l.token).ok
          /\ ValidateNow(l.token).error \in {"Revoked", "SessionNotFound"}

\* what C2 asks of one step
C2_Step ==
    /\ \A l \in loggedOut' :
          l.wasValid =>
             /\ ~ValidateNow(l.token)'.ok
             /\ ValidateNow(l.token)'.error \in
                  {"Revoked", "SessionNotFound", "Expired"}
             /\ ValidateNow(l.token)'.error = "Expired"
                  <=> now' >= l.token.exp
    /\ \A p \in Clients :
          (/\ Returns(p) /\ procs[p].op = "validate"
           /\ \E l \in loggedOut : l.wasValid /\ l.token = procs[p].token)
          => /\ ~resp'.ok
             /\ resp'.error \in {"Revoked", "SessionNotFound", "Expired"}

\* C2 amended: once logout has returned for a token that was valid,
\* validateToken on it fails ever after: with Revoked or SessionNotFound as
\* long as the JWT has not run out, and with Expired from then on; the
\* answers that validateToken requests get for such a token are of these
\* kinds.
C2_LoggedOutStaysRejected == [][C2_Step]_vars

\* a validateToken request on a token that was valid when it was logged out
\* is answered Revoked while another token is still accepted
C2_Witness ==
    /\ resp.op = "validate" /\ ~resp.ok /\ resp.error = "Revoked"
    /\ \E l \in loggedOut : l.wasValid /\ l.token = resp.token
    /\ \E t \in IssuedTokens : ValidateNow(t).ok

\* what C3 asks of one step
C3_Step ==
    /\ \A r \in {resp'} :
          (r.op = "reset" /\ r.ok) =>
             /\ \A s \in sessions' : s.userId # r.userId
             /\ \A t \in TokensOf(r.userId)' : ~ValidateNow(t)'.ok
    /\ \A p \in Clients :
          (Steps(p) /\ procs[p].op = "reset") =>
             \A s \in sessions :
                s \notin sessions' =>
                   /\ procs[p].pc = "rp_sessions"
                   /\ s.userId = procs[p].userId

\* C3: when resetPassword returns normally for user u, no Session row of u
\* is left and validateToken rejects every token issued to u, logged out or
\* not; no step of a resetPassword request touches a row of another user.
C3_ResetInvalidatesAllSessions == [][C3_Step]_vars

\* a reset has just returned for a user who held tokens that were never
\* logged out, and another user still has a live session
C3_Witness ==
    /\ resp.op = "reset" /\ resp.ok
    /\ \E t \in TokensOf(resp.userId) : jwtVerify(t) = "ok" /\ ~IsBlacklisted(t)
    /\ \E s \in sessions : s.userId # resp.userId /\ ValidateNow(s.token).ok

\* what C4 asks of one step
C4_Step ==
    /\ \A r \in {resp'} :
          (r.op = "changePassword" /\ r.ok) =>
             /\ SessionOf(r.token)' # {}
             /\ ValidateNow(r.token)'.ok
             /\ ValidateNow(r.token)'.userId = r.userId
             /\ \A t \in TokensOf(r.userId)' :
                   t # r.token =>
                      /\ SessionOf(t)' = {}
                      /\ ~ValidateNow(t)'.ok
    /\ \A p \in Clients :
          (Steps(p) /\ procs[p].op = "changePassword") =>
             \A s \in sessions :
                s \notin sessions' =>
                   /\ procs[p].pc = "cp_sessions"
                   /\ s.userId = procs[p].userId

\* C4: when changePassword returns normally for user u and token t, the row
\* of t is still there and t passes validateToken, every other token of u
\* has no row and fails validateToken; no step of a changePassword request
\* touches a row of another user.
C4_ChangePasswordKeepsCurrentSession == [][C4_Step]_vars

\* a password change has just returned: its own token is accepted, another
\* token of the same user has lost its row, a third user's token is accepted
C4_Witness ==
    /\ resp.op = "changePassword" /\ resp.ok
    /\ ValidateNow(resp.token).ok
    /\ \E t \in TokensOf(resp.userId) :
          t # resp.token /\ jwtVerify(t) = "ok" /\ SessionOf(t) = {}
    /\ \E s \in sessions : s.userId # resp.userId

\* C5 as stated: forgotPassword answers an e-mail that belongs to an
\* account with the very response it gives for an unknown e-mail.
C5_ForgotSameResponse ==
    resp.op = "forgot" => resp = ForgotMissingResponse

\* what C6 asks of one step
C6_Step ==
    /\ Len(issued') \in {Len(issued), Len(issued) + 1}
    /\ Len(issued') = nonce'
    /\ Cardinality(sessions' \ sessions) =
         IF Len(issued') = Len(issued) THEN 0 ELSE 1
    /\ \A e \in {issued'[i] : i \in (Len(issued) + 1)..Len(issued')} :
          /\ \A s \in sessions' \ sessions :
                s.token = e.token /\ s.userId = e.userId
          /\ ValidateNow(e.token)' =
               [ok |-> TRUE, userId |-> e.userId,
                workspaceId |-> e.workspaceId]
    /\ \A r \in {resp'} :
          (r.op \in {"register", "login", "refresh"} /\ r.ok) =>
             /\ r.token = issued'[Len(issued')].token
             /\ r.op = issued'[Len(issued')].op
             /\ r.userId = issued'[Len(issued')].userId
             /\ r.workspaceId = issued'[Len(issued')].workspaceId
             /\ \E s \in SessionOf(r.token)' : s.userId = r.userId
             /\ Cardinality(SessionOf(r.token)') = 1
             /\ now' = r.token.iat =>
                  ValidateNow(r.token)' =
                    [ok |-> TRUE, userId |-> r.userId,
                     workspaceId |-> r.workspaceId]

\* C6: every token handed out comes with exactly one new Session row, made
\* in the step that generates it, and validateToken accepts it at once for
\* the user and workspace it was issued for; a successful register, login
\* or refresh returns such a token, its row is in place, and unless the
\* clock has moved since the token was made it is accepted on return.
C6_OneActiveSessionPerIssue == [][C6_Step]_vars

\* a refresh has just returned a token that validateToken accepts for the
\* same user and workspace
C6_Witness ==
    /\ resp.op = "refresh" /\ resp.ok
    /\ ValidateNow(resp.token) =
         [ok |-> TRUE, userId |-> resp.userId,
          workspaceId |-> resp.workspaceId]

\* what C7 asks of one step
C7_Step ==
    /\ \A p \in Clients :
          (/\ Steps(p) /\ procs[p].pc = "reg_find"
           /\ UsersByEmail(toLowerCase(procs[p].email)) # {})
          => /\ Returns(p)
             /\ resp' = [op |-> "register", ok |-> FALSE,
                         error |-> "Conflict"]
             /\ UNCHANGED <<users, memberships, sessions, issued>>
    /\ \A p \in Clients :
          (Returns(p) /\ procs[p].op = "register" /\ ~resp'.ok
             /\ procs[p].pc \in {"reg_find", "reg_tx"})
          => UNCHANGED <<users, memberships, sessions, issued>>
    /\ \A e \in {toLowerCase(x) : x \in RawEmails} :
          Cardinality(UsersByEmail(e)') <= 1
    /\ \A u \in UserIds' : users'[u].email = toLowerCase(users'[u].email)

\* C7: a register whose e-mail, lower-cased, is the e-mail of an existing
\* user is answered Conflict in its first step and creates nothing; a
\* register that fails in any way changes no table in the step that fails;
\* no interleaving of register requests leaves two users with one e-mail.
C7_DuplicateRegisterRejected == [][C7_Step]_vars

\* a register has just been answered Conflict while another register is
\* in flight
C7_Witness ==
    /\ resp.op = "register" /\ ~resp.ok /\ resp.error = "Conflict"
    /\ UserIds # {}
    /\ \E p \in Clients : procs[p].op = "register"

\* what C8 asks of one step
C8_Step ==
    \A p \in Clients :
       (Steps(p) /\ procs[p].pc = "login_find") =>
          LET found == UsersByEmail(toLowerCase(procs[p].email))
              bad == \/ found = {}
                     \/ \E u \in found :
                           \/ users[u].passwordHash = NoHash
                           \/ users[u].passwordHash # bcryptHash(procs[p].pw)
          IN bad =>
               /\ Returns(p)
               /\ resp'.op = "login" /\ ~resp'.ok
               /\ resp'.error = "InvalidCredentials"
               /\ UNCHANGED <<users, sessions, issued, nonce>>

\* C8: a login for an e-mail without user, for a user without password
\* hash, or with a password that does not match, is answered
\* InvalidCredentials, the same in the three cases, and leaves the
\* sessions and the users (lastLoginAt) as they were.
C8_UniformInvalidCredentials == [][C8_Step]_vars

\* a login for the e-mail of an invited placeholder (no password hash) has
\* just been answered InvalidCredentials
C8_Witness ==
    /\ resp.op = "login" /\ ~resp.ok /\ resp.error = "InvalidCredentials"
    /\ \E u \in UsersByEmail(toLowerCase(resp.email)) :
          users[u].passwordHash = NoHash
    /\ \E u \in UserIds : users[u].passwordHash # NoHash

\* the order of the checks of validateToken, on its answer v for token t
C9_Order(t, v) ==
    /\ IsBlacklisted(t) => (~v.ok /\ v.error = "Revoked")
    /\ (~IsBlacklisted(t) /\ jwtVerify(t) # "ok") =>
          (~v.ok /\ v.error = jwtVerify(t)
             /\ v.error \in {"InvalidToken", "Expired"})
    /\ (~v.ok /\ v.error = "SessionNotFound") =>
          (~IsBlacklisted(t) /\ jwtVerify(t) = "ok")
    /\ (~v.ok /\ v.error = "WorkspaceNotFound") =>
          (/\ ~IsBlacklisted(t) /\ jwtVerify(t) = "ok"
           /\ \E s \in SessionOf(t) : ~(s.expiresAt < now))
\* what C9 asks of one step
C9_Step ==
    /\ \A t \in TokenUniverse : C9_Order(t, ValidateNow(t))
    /\ \A p \in Clients :
          (Steps(p) /\ procs[p].op = "validate") =>
             LET t == procs[p].token IN
             /\ procs[p].pc = "val_redis" =>
                  IF IsBlacklisted(t)
                  THEN /\ Returns(p)
                       /\ ~resp'.ok /\ resp'.error = "Revoked"
                  ELSE ~Returns(p)
             /\ procs[p].pc = "val_session" =>
                  /\ Returns(p)
                  /\ jwtVerify(t) # "ok" =>
                       (~resp'.ok /\ resp'.error = jwtVerify(t))
                  /\ (~resp'.ok /\ resp'.error = "SessionNotFound") =>
                       jwtVerify(t) = "ok"
                  /\ (~resp'.ok /\ resp'.error = "WorkspaceNotFound") =>
                       \E s \in SessionOf(t) : ~(s.expiresAt < now)

\* C9: validateToken reports the first failing check in the order
\* blacklist, jwt.verify, session row, membership: a blacklisted token is
\* answered Revoked whatever its signature or row; a token that is not
\* blacklisted and does not verify is answered InvalidToken or Expired
\* whatever its row; SessionNotFound is only answered for a token that is
\* not blacklisted and verifies; WorkspaceNotFound only when the row is
\* there and not expired.
C9_ValidationOrder == [][C9_Step]_vars

\* validateToken has just answered Expired for a token that has no Session
\* row any more
C9_Witness ==
    /\ resp.op = "validate" /\ ~resp.ok /\ resp.error = "Expired"
    /\ SessionOf(resp.token) = {}
    /\ resp.token \in IssuedTokens

\* C10 as stated: validateToken accepts a token only if its Session row
\* exists with expiresAt later than the current time.
C10_AcceptedOnlyBeforeExpiry ==
    \A t \in TokenUniverse :
       ValidateNow(t).ok => \E s \in SessionOf(t) : s.expiresAt > now

\* what C11 asks of one step
C11_Step ==
    \A p \in Clients :
       Steps(p) =>
          LET r == procs[p] IN
          /\ (/\ r.pc = "val_session" /\ jwtVerify(r.token) = "ok"
              /\ \E s \in SessionOf(r.token) :
                    /\ ~SessionExpired(s)
                    /\ ~\E m \in memberships :
                          /\ m.userId = s.userId
                          /\ m.workspaceId = r.token.workspaceId)
             => /\ Returns(p)
                /\ ~resp'.ok
                /\ resp'.error =
                     IF r.op \in {"validate", "refresh"}
                     THEN "WorkspaceNotFound" ELSE "Unauthorized"
          /\ r.pc = "inv_role" =>
                LET cur == {m \in memberships :
                              /\ m.userId = r.userId
                              /\ m.workspaceId = r.workspaceId}
                IN IF \E m \in cur : m.role \in {"OWNER", "ADMIN"}
                   THEN ~Returns(p)
                   ELSE /\ Returns(p)
                        /\ ~resp'.ok
                        /\ resp'.error = "InsufficientRole"
                        /\ UNCHANGED <<users, memberships>>

\* C11: a token whose membership for its workspaceId is gone is answered
\* WorkspaceNotFound by validateToken (401 by authenticate) although it
\* verifies and its Session row is live; requireRole decides with the role
\* of the membership row as it is when the request runs, whatever role the
\* token carries: 403 when the row is missing or its role is not allowed.
C11_CurrentMembershipDecides == [][C11_Step]_vars

\* an invitation sent with a token that carries OWNER has just been
\* answered 403 because the membership row now says USER
C11_Witness ==
    /\ resp.op = "invite" /\ ~resp.ok /\ resp.error = "InsufficientRole"
    /\ resp.token.role = "OWNER"
    /\ \E m \in memberships :
          /\ m.userId = resp.token.userId
          /\ m.workspaceId = resp.token.workspaceId
          /\ m.role = "USER"

\* the clock has run past the expiry of token t or of its Session row
C12_RanOut(t) ==
    \/ jwtVerify(t) = "Expired"
    \/ \E s \in SessionOf(t) : SessionExpired(s)

C13_Step ==
    /\ \A p \in Clients :
          (Steps(p) /\ procs[p].op = "refresh") =>
             LET r == procs[p] IN
             /\ r.pc \in {"val_redis", "val_session"} =>
                   /\ UNCHANGED <<sessions, issued, nonce, blacklist>>
                   /\ Returns(p) => ~resp'.ok
             /\ (r.pc = "val_session" /\ ~ValidateNow(r.token).ok) =>
                   (Returns(p) /\ ~resp'.ok)
             /\ (r.pc = "rf_user" /\ ~Returns(p)) =>
                   /\ r.userId = r.token.userId
                   /\ r.workspaceId = r.token.workspaceId
                   /\ \A m \in memberships :
                         (m.userId = r.userId
                            /\ m.workspaceId = r.workspaceId)
                         => procs'[p].role = m.role
             /\ r.pc = "rf_session" =>
                   \A e \in {issued'[i] :
                               i \in (Len(issued) + 1)..Len(issued')} :
                      /\ e.token # r.token
                      /\ e.token.userId = r.token.userId
                      /\ e.token.workspaceId = r.token.workspaceId
                      /\ e.token.role = r.role
                      /\ procs'[p].newToken = e.token
             /\ (Returns(p) /\ resp'.ok) =>
                   /\ r.pc = "logout_blacklist"
                   /\ resp'.token = r.newToken
                   /\ resp'.token # r.token
                   /\ resp'.userId = r.token.userId
                   /\ resp'.workspaceId = r.token.workspaceId
                   /\ \A t \in {r.token} : ~ValidateNow(t)'.ok
                   /\ \A t \in {r.newToken} :
                         \/ ValidateNow(t)'.ok
                         \/ ~\E m \in memberships' :
                               /\ m.userId = t.userId
                               /\ m.workspaceId = t.workspaceId
    /\ \A l \in loggedOut' : ~ValidateNow(l.token)'.ok

\* C13: a refreshToken that returns normally returns a token other than
\* the old one, for the same user and workspace, with the role read from
\* the membership row during the refresh, and validateToken accepts it (as
\* long as that membership is there) while it rejects the old token from
\* then on; a refreshToken whose token fails validateToken fails and
\* writes no session, token or blacklist entry.
C13_RefreshReplacesToken == [][C13_Step]_vars

\* a refresh has just exchanged a token that carries OWNER for one that
\* carries USER, the role the membership row has now; the new token is
\* accepted, the old one is not
C13_Witness ==
    /\ resp.op = "refresh" /\ resp.ok
    /\ resp.token.role = "USER"
    /\ ValidateNow(resp.token).ok
    /\ \E l \in loggedOut :
          /\ l.token.role = "OWNER"
          /\ l.token.userId = resp.userId
          /\ ~ValidateNow(l.token).ok

\* C14 as stated: logout of a token that has no Session row (logged out
\* before, never issued, or malformed) is answered with success.
C14_LogoutWithoutSessionSucceeds ==
    (resp.op = "logout" /\ SessionOf(resp.token) = {}) => resp.ok

\* what C15 asks of one step
C15_Step ==
    \A p \in Clients :
        (/\ Steps(p)
         /\ procs[p].pc = "rl_get"
         /\ cacheUp
         /\ passed[procs[p].op] >= MaxAttempts(procs[p].op))
        => /\ Returns(p)
           /\ resp' = [op |-> procs[p].op, ok |-> FALSE,
                       error |-> "RateLimited", email |-> procs[p].email,
                       pw |-> procs[p].pw]
           /\ UNCHANGED <<users, memberships, sessions, nonce, issued,
                          rate, passed>>

C16_AllowedWithinLimit ==
    \A o \in {"register", "login"} : passed[o] <= MaxAttempts(o)

\* what C17 asks of one step
C17_Step ==
    \A p \in Clients :
        /\ (/\ Steps(p)
            /\ procs[p].pc \in {"rl_get", "rl_incr"}
            /\ ~cacheUp)
           => /\ procs'[p] = RateNext(procs[p])
              /\ resp'.op = "log"
              /\ UNCHANGED <<rate, passed>>
        /\ procs[p].pc \notin {"idle", "rl_get", "rl_incr"}
           => procs'[p].pc \notin {"rl_get", "rl_incr"}

\* C17: when Redis fails at the limiter's read or at its increment, the
\* request is handed to the route's handler with its e-mail and password
\* unchanged, it is not answered 429, the counter is left as it was, and a
\* request that has reached its handler never passes the limiter again.
C17_FailOpenOnce == [][C17_Step]_vars

\* a login reaches its handler through the catch block although the
\* counter is full
C17_Witness ==
    /\ resp.op = "log"
    /\ resp.route = "login"
    /\ ~cacheUp
    /\ RateExceeded(rate.count, LoginMaxAttempts)
    /\ \E p \in Clients : procs[p].pc = "login_find"

\* C18 as stated: while Redis is unavailable, a validateToken call on a
\* well-signed, unexpired token with a live Session row and a membership
\* for its workspace is answered with success.
C18_CacheDownStillAccepted ==
    (/\ resp.op = "validate"
     /\ ~cacheUp
     /\ ValidateAfterRedis(resp.token).ok)
    => resp.ok

\* what C19 asks of one step
C19_Step ==
    /\ ~storeUp => \A t \in TokenUniverse : ~ValidateNow(t).ok
    /\ \A p \in Clients :
          (/\ Steps(p)
           /\ procs[p].pc \in {"val_redis", "val_session"}
           /\ ~storeUp)
          => /\ procs'[p].pc \in {"idle", "val_session"}
             /\ procs[p].pc = "val_session"
                => /\ Returns(p)
                   /\ ~resp'.ok
                   /\ procs[p].op \notin {"validate", "refresh"}
                      => resp'.error = "Unauthorized"
             /\ UNCHANGED <<users, memberships, sessions, blacklist>>

\* C19: while the database is unavailable validateToken succeeds for no
\* token, and a request behind the authenticate middleware whose session
\* lookup fails is answered 401 there: it never reaches requireRole or its
\* handler, and nothing is written.
C19_StoreDownFailsClosed == [][C19_Step]_vars

\* an invitation sent with a good token, whose Session row is there, is
\* answered 401 while the database is down
C19_Witness ==
    /\ resp.op = "invite"
    /\ ~resp.ok
    /\ resp.error = "Unauthorized"
    /\ ~storeUp
    /\ cacheUp
    /\ jwtVerify(resp.token) = "ok"
    /\ ~IsBlacklisted(resp.token)
    /\ SessionOf(resp.token) # {}

\* what C20 asks of one step
C20_Step ==
    /\ \A t \in TokenUniverse :
          ~ValidateNow(t).ok => \A u \in {t} : ~ValidateNow(u)'.ok
    /\ \A e \in loggedOut :
          \A u \in {e.token} : SessionOf(u)' = {} /\ ~ValidateNow(u)'.ok
    /\ \A e \in blacklist : SessionOf(e.token) = {}

\* C20: no step, the emptying of Redis included, makes validateToken accept
\* a token it rejected before the step: a token that was logged out, or
\* whose row a password reset or change deleted, has no Session row, so it
\* is rejected with or without its blacklist entry, and every blacklisted
\* token is one whose row is gone.
C20_FlushRevivesNothing == [][C20_Step]_vars

\* Redis has just been emptied: a logged-out token that was valid and has
\* not run out is no longer blacklisted, another unexpired token lost its
\* row to a password change or reset, and both are rejected
C20_Witness ==
    /\ resp.op = "flush"
    /\ \E e \in loggedOut :
          /\ e.wasValid
          /\ jwtVerify(e.token) = "ok"
          /\ ~IsBlacklisted(e.token)
          /\ ~ValidateNow(e.token).ok
    /\ \E t \in IssuedTokens :
          /\ \A e \in loggedOut : e.token # t
          /\ jwtVerify(t) = "ok"
          /\ SessionOf(t) = {}
          /\ ~ValidateNow(t).ok

\* C21 as stated: a user row written by register comes with its Session or
\* not at all (every self-registered user either holds a token that
\* register returned or has the register that creates it still under way),
\* and every self-registered user owns a workspace.
C21_RegisterAllOrNothing ==
    \A u \in UserIds :
        users[u].passwordHash # NoHash =>
            /\ \/ \E i \in 1..Len(issued) :
                     issued[i].op = "register" /\ issued[i].userId = u
               \/ \E p \in Clients :
                     procs[p].pc = "reg_session" /\ procs[p].userId = u
            /\ \E m \in memberships : m.userId = u /\ m.role = "OWNER"

\* the slot password_reset:<userId> holds a token other than tok
Superseded(tok) ==
    /\ jwtVerify(tok) = "ok"
    /\ tok.typ = "password_reset"
    /\ \E k \in tickets :
          k.userId = tok.userId /\ k.until > now /\ k.token # tok

\* what C22 asks of one step
C22_Step ==
    /\ \A k1, k2 \in tickets : k1.userId = k2.userId => k1 = k2
    /\ \A p \in Clients :
          (Steps(p) /\ procs[p].pc = "rp_get") =>
             /\ Superseded(procs[p].token)
                => /\ Returns(p)
                   /\ resp' = [op |-> "reset", ok |-> FALSE,
                               error |-> "ResetTokenExpiredOrInvalid",
                               token |-> procs[p].token]
                   /\ UNCHANGED <<users, tickets, sessions>>
             /\ ~Returns(p)
                => \E k \in tickets :
                      /\ k.userId = procs[p].token.userId
                      /\ k.token = procs[p].token

\* C22: the slot password_reset:<userId> holds one token per user.  A
\* resetPassword call with a well-signed, unexpired reset token that is not
\* the one in the slot (a later forgotPassword overwrote it) fails with
\* "Reset token expired or invalid" and changes neither the password hash,
\* nor the slot, nor any session; a call gets past the check only with the
\* token the slot holds.
C22_SingleSlotTicket == [][C22_Step]_vars

\* the first of two reset tokens of a user, still unexpired, has just been
\* refused while the second is in the slot and the user has a session
C22_Witness ==
    /\ resp.op = "reset"
    /\ ~resp.ok
    /\ resp.error = "ResetTokenExpiredOrInvalid"
    /\ resp.token \in resetIssued
    /\ Superseded(resp.token)
    /\ \E s \in sessions : s.userId = resp.token.userId

\* C23 as stated: a login that succeeds for a user who owns a workspace
\* returns a token for a workspace the user owns, also when the user is
\* ADMIN of another one; a login of a user without OWNER or ADMIN
\* membership is answered NoWorkspace and leaves no Session.
C23_LoginPrefersOwner ==
    /\ (resp.op = "login" /\ resp.ok /\
          \E m \in memberships : m.userId = resp.userId /\ m.role = "OWNER")
       => \E m \in memberships :
             /\ m.userId = resp.userId
             /\ m.workspaceId = resp.workspaceId
             /\ m.role = "OWNER"
    /\ (resp.op = "login" /\ ~resp.ok /\ resp.error = "NoWorkspace")
       => \A u \in UsersByEmail(toLowerCase(resp.email)) :
             /\ PrimaryMemberships(u) = {}
             /\ \A s \in sessions : s.userId # u

\* what C24 asks of one step
C24_Step ==
    /\ \A e \in blacklist : e.token # Garbage /\ e.until <= e.token.exp
    /\ \A p \in Clients :
          (Steps(p) /\ procs[p].pc = "logout_blacklist") =>
             LET tok == procs[p].token IN
             IF tok = Garbage \/ tok.exp - now <= 0
             THEN blacklist' = blacklist
             ELSE /\ [token |-> tok, until |-> now + (tok.exp - now)]
                        \in blacklist'
                  /\ \A e \in blacklist' : e.token = tok => e.until = tok.exp
                  /\ \A e \in blacklist : e.token # tok => e \in blacklist'
    /\ \A p \in Clients :
          (Steps(p) /\ procs[p].pc # "logout_blacklist") =>
             blacklist' \subseteq blacklist

\* C24: only the second step of logout writes blacklist entries; the entry
\* it writes for a token lasts exp - now, with exp the expiry inside the
\* token, so no entry is kept beyond the expiry of its token, and when
\* exp - now is zero or negative, or the token does not decode, the
\* blacklist is left as it was.
C24_EntryLivesNoLongerThanToken == [][C24_Step]_vars

\* a token has just been logged out some time after it was issued: its
\* entry ends with the token, earlier than a full token lifetime from now
C24_Witness ==
    /\ resp.op = "logout"
    /\ resp.ok
    /\ now > resp.token.iat
    /\ \E e \in blacklist :
          /\ e.token = resp.token
          /\ e.until = resp.token.exp
          /\ e.until > now
          /\ e.until < now + jwtExpiresIn

\* C25 as stated: when resetPassword or changePassword has returned
\* normally for a user, every token of the user that has lost its Session
\* row has a blacklist entry, and validateToken rejects it as revoked.
C25_InvalidationBlacklists ==
    (resp.op \in {"reset", "changePassword"} /\ resp.ok) =>
        \A t \in TokensOf(resp.userId) :
            SessionOf(t) = {} =>
                /\ IsBlacklisted(t)
                /\ ValidateNow(t) = [ok |-> FALSE, error |-> "Revoked"]

\* what C26 asks of one step
C26_Step ==
    \A t \in IssuedTokens :
        ~ValidateNow(t).ok => \A u \in {t} : ~ValidateNow(u)'.ok

C27_TicketUsedOnce ==
    (resp.op = "reset" /\ resp.ok) =>
        ~\E q \in Clients :
            /\ procs[q].op = "reset"
            /\ procs[q].pc \in {"rp_update", "rp_del", "rp_sessions"}
            /\ procs[q].token = resp.token

\* C28 as stated: when a login has returned and no request is under way,
\* its session is live only if the password it checked is still the
\* password of the account.
C28_NoSessionFromOldPassword ==
    (/\ resp.op = "login"
     /\ resp.ok
     /\ \A p \in Clients : Free(p)
     /\ SessionOf(resp.token) # {})
    => users[resp.userId].passwordHash = resp.checked

\* C29 as stated: when a resetPassword call that has stored a new password
\* hash for a user returns, with success or with an error, the user has no
\* Session row left.
C29_HashReplacedMeansSessionsGone ==
    (resp.op = "reset" /\ "userId" \in DOMAIN resp) =>
        \A s \in sessions : s.userId # resp.userId

\* C30 as stated: when refreshToken ends in an error after it has signed a
\* new token, no Session row of that token, which the caller never got, is
\* left.
C30_FailedRefreshLeavesNoSession ==
    (resp.op = "refresh" /\ ~resp.ok /\ "newToken" \in DOMAIN resp) =>
        SessionOf(resp.newToken) = {}

====
